---- MODULE Spec2Model ----
(***************************************************************************)
(* Model of the miner's scoring orchestration:                             *)
(*   checkerchain/miner/forward.py  (get_overall_score, forward)           *)
(*   checkerchain/miner/llm.py      (ScoreBreakdown, generate_review_score)*)
(*                                                                         *)
(* Scores are kept in scaled integers.  Weights are held times 10, the     *)
(* normalisation factors times 100, so a weighted sum is in thousandths;   *)
(* a finished score (rounded to two decimals) is in hundredths: 50.0 is    *)
(* 5000, 100 is 10000.  Every normalised value times 100 is even, so a     *)
(* weighted sum in thousandths is even and never ends in 5: rounding to    *)
(* two decimals has no ties and is the same in exact and in float          *)
(* arithmetic.                                                             *)
(***************************************************************************)
EXTENDS Integers, Sequences, FiniteSets, TLC

(***************************************************************************)
(* Bounds of the model.                                                    *)
(***************************************************************************)
\* forward() calls the model tells apart
NumBatches == 2
\* longest synapse.query of a call
MaxLen == 2
\* how far outside [0,10] a criterion sent by the oracle may lie
Excess == 1

(***************************************************************************)
(* llm.py: ScoreBreakdown, ReviewScoreSchema                               *)
(***************************************************************************)
\* ScoreBreakdown.model_fields.keys(), in declaration order
FieldNames ==
  << "project", "userbase", "utility", "security", "team",
     "tokenomics", "marketing", "roadmap", "clarity", "partnerships" >>

Fields == { FieldNames[k] : k \in 1..Len(FieldNames) }

\* the range the prompt asks of every criterion ("integers between 0-10")
MinCriterion == 0
MaxCriterion == 10

\* every criterion is in that range (ScoreBreakdown itself declares plain int
\* fields and enforces no range)
InPromptRange(bd) == \A f \in Fields : bd[f] \in MinCriterion..MaxCriterion

\* what generate_review_score hands to gather: an exception, a value that is
\* no ReviewScoreSchema (the parser's None), or a ReviewScoreSchema
Raised == [kind |-> "raise"]
NotSchema == [kind |-> "other"]
Pending == [kind |-> "pending"]
Schema(bd) == [kind |-> "schema", breakdown |-> bd]

(***************************************************************************)
(* forward.py: get_overall_score                                           *)
(***************************************************************************)
\* absent / present score (Python None / float)
None == << >>
Some(s) == << s >>
IsNone(o) == o = << >>
Val(o) == o[1]

\* a faulty table: team typed 0.7 for 0.4, so the weights sum to 10.3
weightsHeavy ==
  [ project |-> 11, userbase |-> 9, utility |-> 12, security |-> 17,
    team |-> 7, tokenomics |-> 11, marketing |-> 15, roadmap |-> 10,
    clarity |-> 4, partnerships |-> 7 ]

\* weights, times 10
weights ==
  [ project |-> 11, userbase |-> 9, utility |-> 12, security |-> 17,
    team |-> 4, tokenomics |-> 11, marketing |-> 15, roadmap |-> 10,
    clarity |-> 4, partnerships |-> 7 ]

Min2(a, b) == IF a <= b THEN a ELSE b
Max2(a, b) == IF a >= b THEN a ELSE b

\* a faulty normalisation with strict comparisons (score < 2, score > 9)
NormalizeStrict(score) ==
  IF score < 2 THEN score * 110
  ELSE IF score > 9 THEN Min2(10 * 100, score * 98)
  ELSE score * 100

\* normalised criterion, times 100
Normalize(score) ==
  IF score <= 2 THEN score * 110
  ELSE IF score >= 9 THEN Min2(10 * 100, score * 98)
  ELSE score * 100

\* sum(float(normalized_scores[key]) * weights[key] ...), in thousandths
RECURSIVE SumFrom(_, _)
SumFrom(bd, k) ==
  IF k > Len(FieldNames) THEN 0
  ELSE Normalize(bd[FieldNames[k]]) * weights[FieldNames[k]] + SumFrom(bd, k + 1)

WeightedSum(bd) == SumFrom(bd, 1)

\* a faulty clamp that bounds the score from above only
ClampUpperOnly(x) == Min2(100 * 1000, x)

\* max(0, min(100, overall_score)), in thousandths
Clamp(x) == Max2(0, Min2(100 * 1000, x))

\* round(x, 2) of a clamped (non-negative) value: thousandths to hundredths
Round2(x) == (x + 5) \div 10

get_overall_score(ai_response) ==
  IF ai_response.kind = "schema"
  THEN Some(Round2(Clamp(WeightedSum(ai_response.breakdown))))
  ELSE None


(***************************************************************************)
(* forward.py: state                                                       *)
(***************************************************************************)
Batches == 1..NumBatches
Ids == {"A", "B"}

\* the criteria of one oracle answer: all fields v, then one field changed
Uniform(v) == [f \in Fields |-> v]
WithField(bd, f, v) == [bd EXCEPT ![f] = v]

\* answers the oracle gives in the model: one inside the prompt's range and
\* one with a criterion above it (ScoreBreakdown accepts any int)
OracleBreakdowns ==
  { Uniform(7), WithField(Uniform(5), "project", MaxCriterion + Excess) }

\* what one fetch_product_data call answers: a product record (TRUE) or
\* nothing (FALSE).  The lookup is a call to an outside service, asked anew each
\* time, so two calls for one id need not agree.
FetchAnswers == BOOLEAN

\* how one generate_review_score call settles under gather(return_exceptions=True)
Outcomes == {Raised, NotSchema} \cup { Schema(bd) : bd \in OracleBreakdowns }

VARIABLES
  miner_preds,    \* the module-level cache: product id -> score or None (no key)
  pc,             \* per batch: "idle", "wave1" (first gather), "wave2", "done",
                  \* "error" (forward left by an exception)
  query,          \* synapse.query
  predictions,    \* predictions, one slot per query position
  product_ids,    \* [i, product_id] per first-wave task
  tasks,          \* the first-wave coroutines: product id, and the position made for
  results,        \* results of the first gather, Pending until settled
  retry_indices,  \* [i, product_id, task_index] per retry task
  retry_tasks,    \* the second-wave coroutines
  retry_results,  \* results of the second gather
  response,       \* synapse.response
  \* history, written but never read by the program's steps
  cache0,         \* miner_preds as it was when the batch started
  lookups,        \* per position: results of the fetch_product_data calls made for it
  calls,          \* per position: number of oracle calls dispatched for it
  attempts,       \* per position: how the oracle calls made for it settled
  accepted,       \* oracle results taken as a successful score
  writers,        \* positions whose handling wrote miner_preds
  fellback,       \* positions given the fallback score
  \* the aggregation on its own
  aggPc,          \* "idle", "called" or "returned"
  aggIn,          \* the breakdown of the ReviewScoreSchema handed to get_overall_score
  aggOut          \* what get_overall_score returned

fwdVars ==
  << miner_preds, pc, query, predictions, product_ids, tasks, results,
     retry_indices, retry_tasks, retry_results, response,
     cache0, lookups, calls, attempts, accepted, writers, fellback >>
aggVars == << aggPc, aggIn, aggOut >>
vars == << fwdVars, aggVars >>

\* line 13: miner_preds = {}
EmptyCache == [p \in Ids |-> None]

InitForward ==
  /\ miner_preds = EmptyCache
  /\ pc = [b \in Batches |-> "idle"]
  /\ query = [b \in Batches |-> << >>]
  /\ predictions = [b \in Batches |-> << >>]
  /\ product_ids = [b \in Batches |-> << >>]
  /\ tasks = [b \in Batches |-> << >>]
  /\ results = [b \in Batches |-> << >>]
  /\ retry_indices = [b \in Batches |-> << >>]
  /\ retry_tasks = [b \in Batches |-> << >>]
  /\ retry_results = [b \in Batches |-> << >>]
  /\ response = [b \in Batches |-> << >>]
  /\ cache0 = [b \in Batches |-> EmptyCache]
  /\ lookups = [b \in Batches |-> << >>]
  /\ calls = [b \in Batches |-> << >>]
  /\ attempts = [b \in Batches |-> << >>]
  /\ accepted = [b \in Batches |-> {}]
  /\ writers = [b \in Batches |-> {}]
  /\ fellback = [b \in Batches |-> {}]

InitAggIdle ==
  /\ aggPc = "idle"
  /\ aggIn = Uniform(0)
  /\ aggOut = None

Init == InitForward /\ InitAggIdle

(***************************************************************************)
(* forward.py: forward.  Positions and task indexes count from 1.  forward *)
(* suspends only at its two gathers, so the code between them is one step. *)
(***************************************************************************)
Queries == UNION { [1..n -> Ids] : n \in 0..MaxLen }

Positions(n) == [i \in 1..n |-> i]

\* no other call is between its start and its return
Alone(b) == \A c \in Batches \ {b} : pc[c] = "idle"

\* a faulty membership test that never finds the key
InCacheNever(cache, product_id) == FALSE

\* line 79: product_id in miner_preds
InCache(cache, product_id) == ~IsNone(cache[product_id])

\* line 73: predictions = [None] * len(synapse.query)
InitPredictions(q) == [i \in 1..Len(q) |-> None]

\* a faulty fallback: the sentinel -1.0 in place of the middle score
FallbackSentinel == (0 - 1) * 100

\* line 162: fallback_score = 50.0
FallbackScore == 5000

\* a faulty not-found branch that hands out the fallback score
NotFoundFallback == Some(FallbackScore)

\* line 91: predictions[i] = None
NotFoundPrediction == None

\* a faulty assignment that keeps only the scored slots
AssignResponseScored(preds) == SelectSeq(preds, LAMBDA p : ~IsNone(p))

\* lines 95, 178: synapse.response = predictions
AssignResponse(preds) == preds

\* a faulty range test on the 0..10 scale of the criteria
IsValidScoreTenScale(score) ==
  ~IsNone(score) /\ 0 <= Val(score) /\ Val(score) <= 10 * 100

\* lines 121, 155: the score is present and within 0..100
IsValidScore(score) == ~IsNone(score) /\ 0 <= Val(score) /\ Val(score) <= 100 * 100

\* a faulty slot choice: the index of the result in the gathered list
TargetSlotByIndex(entry, index) == index

\* lines 106, 146: the slot a result is stored in is the i kept with the task
TargetSlot(entry, index) == entry.i

\* a faulty wait that returns as soon as one awaitable has settled
GatheredFirst(rs) == rs = << >> \/ \E t \in 1..Len(rs) : rs[t] # Pending

\* lines 99, 143: asyncio.gather returns once every awaitable has settled
Gathered(rs) == \A t \in 1..Len(rs) : rs[t] # Pending

\* a gather without return_exceptions: an exception of an awaitable is
\* raised into forward
PropagatesRaised(rs) == \E t \in 1..Len(rs) : rs[t] = Raised

\* lines 99, 143: return_exceptions=True, gather hands the exceptions of its
\* awaitables back as results and raises none of them
Propagates(rs) == FALSE

\* a faulty cache write that keeps an entry already present (setdefault)
StoreIfAbsent(cache, product_id, score) ==
  IF InCache(cache, product_id) THEN cache
  ELSE [cache EXCEPT ![product_id] = score]

\* lines 130, 158, 164: miner_preds[product_id] = score
Store(cache, product_id, score) == [cache EXCEPT ![product_id] = score]

\* lines 71-96: partition the query, then return or start the first gather.
\* fetch[i] is what fetch_product_data answers for position i, if asked.
Start(b, q, fetch) ==
  /\ pc[b] = "idle"
  /\ \A c \in Batches : c < b => pc[c] # "idle"
  /\ LET hit(i) == InCache(miner_preds, q[i])
         found == SelectSeq(Positions(Len(q)), LAMBDA i : ~hit(i) /\ fetch[i])
         preds == [i \in 1..Len(q) |->
                     IF hit(i) THEN miner_preds[q[i]]
                     ELSE IF fetch[i] THEN InitPredictions(q)[i]
                     ELSE NotFoundPrediction]
     IN /\ query' = [query EXCEPT ![b] = q]
        /\ predictions' = [predictions EXCEPT ![b] = preds]
        /\ product_ids' = [product_ids EXCEPT ![b] =
             [t \in 1..Len(found) |-> [i |-> found[t], product_id |-> q[found[t]]]]]
        /\ tasks' = [tasks EXCEPT ![b] =
             [t \in 1..Len(found) |-> [product_id |-> q[found[t]], pos |-> found[t]]]]
        /\ results' = [results EXCEPT ![b] = [t \in 1..Len(found) |-> Pending]]
        /\ retry_indices' = [retry_indices EXCEPT ![b] = << >>]
        /\ retry_tasks' = [retry_tasks EXCEPT ![b] = << >>]
        /\ retry_results' = [retry_results EXCEPT ![b] = << >>]
        /\ IF found = << >>
           THEN /\ response' = [response EXCEPT ![b] = AssignResponse(preds)]
                /\ pc' = [pc EXCEPT ![b] = "done"]
           ELSE /\ response' = [response EXCEPT ![b] = << >>]
                /\ pc' = [pc EXCEPT ![b] = "wave1"]
        /\ cache0' = [cache0 EXCEPT ![b] = miner_preds]
        /\ lookups' = [lookups EXCEPT ![b] =
             [i \in 1..Len(q) |-> IF hit(i) THEN << >> ELSE << fetch[i] >>]]
        /\ calls' = [calls EXCEPT ![b] =
             [i \in 1..Len(q) |-> IF ~hit(i) /\ fetch[i] THEN 1 ELSE 0]]
        /\ attempts' = [attempts EXCEPT ![b] = [i \in 1..Len(q) |-> << >>]]
        /\ accepted' = [accepted EXCEPT ![b] = {}]
        /\ writers' = [writers EXCEPT ![b] = {}]
        /\ fellback' = [fellback EXCEPT ![b] = {}]
  /\ UNCHANGED << miner_preds, aggVars >>

\* line 99: one first-wave oracle call settles (in any order)
Settle1(b, t, o) ==
  /\ pc[b] = "wave1"
  /\ t \in 1..Len(results[b])
  /\ results[b][t] = Pending
  /\ results' = [results EXCEPT ![b][t] = o]
  /\ attempts' = [attempts EXCEPT ![b][tasks[b][t].pos] = Append(@, o)]
  /\ UNCHANGED << miner_preds, pc, query, predictions, product_ids, tasks,
                  retry_indices, retry_tasks, retry_results, response,
                  cache0, lookups, calls, accepted, writers, fellback, aggVars >>

\* lines 105-138, one turn of the loop.  st carries predictions, the cache,
\* the retry lists and the history; again is the answer of the second
\* fetch_product_data call, if one is made; pos is the position the settled
\* coroutine was created for (history only).
Wave1Step(st, entry, task_index, result, again, pos) ==
  LET i == TargetSlot(entry, task_index)
      score == get_overall_score(result)
      queued == [st EXCEPT
                   !.retry = IF again
                             THEN Append(@, [i |-> i, product_id |-> entry.product_id,
                                             task_index |-> task_index])
                             ELSE @,
                   !.lookups[pos] = Append(@, again)]
  IN IF result.kind = "raise" THEN queued
     ELSE IF ~IsValidScore(score) THEN queued
     ELSE [st EXCEPT !.preds[i] = score,
                     !.cache = Store(@, entry.product_id, score),
                     !.accepted = @ \cup {result},
                     !.writers = @ \cup {pos}]

RECURSIVE Wave1Loop(_, _, _, _)
Wave1Loop(st, b, t, refetch) ==
  IF t > Len(results[b]) THEN st
  ELSE Wave1Loop(Wave1Step(st, product_ids[b][t], t, results[b][t], refetch[t],
                           tasks[b][t].pos),
                 b, t + 1, refetch)

\* lines 101-143 (and 174-179 when nothing is retried): the first gather has
\* returned; results are handled in task order.
Wave1Done(b, refetch) ==
  /\ pc[b] = "wave1"
  /\ Gathered(results[b])
  /\ LET st0 == [preds |-> predictions[b], cache |-> miner_preds, retry |-> << >>,
                 lookups |-> lookups[b], accepted |-> accepted[b],
                 writers |-> writers[b]]
         st == Wave1Loop(st0, b, 1, refetch)
         n == Len(st.retry)
     IN /\ predictions' = [predictions EXCEPT ![b] = st.preds]
        /\ miner_preds' = st.cache
        /\ retry_indices' = [retry_indices EXCEPT ![b] = st.retry]
        /\ retry_tasks' = [retry_tasks EXCEPT ![b] =
             [r \in 1..n |-> [product_id |-> st.retry[r].product_id,
                              pos |-> tasks[b][st.retry[r].task_index].pos]]]
        /\ retry_results' = [retry_results EXCEPT ![b] = [r \in 1..n |-> Pending]]
        /\ lookups' = [lookups EXCEPT ![b] = st.lookups]
        /\ accepted' = [accepted EXCEPT ![b] = st.accepted]
        /\ writers' = [writers EXCEPT ![b] = st.writers]
        /\ calls' = [calls EXCEPT ![b] =
             [i \in 1..Len(query[b]) |->
                calls[b][i] + Cardinality({ r \in 1..n :
                                tasks[b][st.retry[r].task_index].pos = i })]]
        /\ IF Propagates(results[b])
           THEN /\ UNCHANGED response
                /\ pc' = [pc EXCEPT ![b] = "error"]
           ELSE IF n = 0
           THEN /\ response' = [response EXCEPT ![b] = AssignResponse(st.preds)]
                /\ pc' = [pc EXCEPT ![b] = "done"]
           ELSE /\ UNCHANGED response
                /\ pc' = [pc EXCEPT ![b] = "wave2"]
  /\ UNCHANGED << query, product_ids, tasks, results, cache0, attempts, fellback,
                  aggVars >>

\* line 143: one retry oracle call settles
Settle2(b, r, o) ==
  /\ pc[b] = "wave2"
  /\ r \in 1..Len(retry_results[b])
  /\ retry_results[b][r] = Pending
  /\ retry_results' = [retry_results EXCEPT ![b][r] = o]
  /\ attempts' = [attempts EXCEPT ![b][retry_tasks[b][r].pos] = Append(@, o)]
  /\ UNCHANGED << miner_preds, pc, query, predictions, product_ids, tasks, results,
                  retry_indices, retry_tasks, response,
                  cache0, lookups, calls, accepted, writers, fellback, aggVars >>

\* lines 145-172, one turn of the retry loop
Wave2Step(st, entry, retry_index, retry_result, pos) ==
  LET i == TargetSlot(entry, retry_index)
      score == get_overall_score(retry_result)
      fallback == [st EXCEPT !.preds[i] = Some(FallbackScore),
                             !.cache = Store(@, entry.product_id, Some(FallbackScore)),
                             !.fellback = @ \cup {pos},
                             !.writers = @ \cup {pos}]
  IN IF retry_result.kind = "raise" THEN fallback
     ELSE IF IsValidScore(score)
          THEN [st EXCEPT !.preds[i] = score,
                          !.cache = Store(@, entry.product_id, score),
                          !.accepted = @ \cup {retry_result},
                          !.writers = @ \cup {pos}]
          ELSE fallback

RECURSIVE Wave2Loop(_, _, _)
Wave2Loop(st, b, r) ==
  IF r > Len(retry_results[b]) THEN st
  ELSE Wave2Loop(Wave2Step(st, retry_indices[b][r], r, retry_results[b][r],
                           retry_tasks[b][r].pos),
                 b, r + 1)

\* lines 145-179: the second gather has returned
Wave2Done(b) ==
  /\ pc[b] = "wave2"
  /\ Gathered(retry_results[b])
  /\ LET st0 == [preds |-> predictions[b], cache |-> miner_preds,
                 accepted |-> accepted[b], writers |-> writers[b],
                 fellback |-> fellback[b]]
         st == Wave2Loop(st0, b, 1)
     IN /\ predictions' = [predictions EXCEPT ![b] = st.preds]
        /\ miner_preds' = st.cache
        /\ accepted' = [accepted EXCEPT ![b] = st.accepted]
        /\ writers' = [writers EXCEPT ![b] = st.writers]
        /\ fellback' = [fellback EXCEPT ![b] = st.fellback]
        /\ IF Propagates(retry_results[b])
           THEN /\ UNCHANGED response
                /\ pc' = [pc EXCEPT ![b] = "error"]
           ELSE /\ response' = [response EXCEPT ![b] = AssignResponse(st.preds)]
                /\ pc' = [pc EXCEPT ![b] = "done"]
  /\ UNCHANGED << query, product_ids, tasks, results, retry_indices, retry_tasks,
                  retry_results, cache0, lookups, calls, attempts, aggVars >>

\* line 179: return synapse; the call's locals are gone
Return(b) ==
  /\ pc[b] = "done"
  /\ pc' = [pc EXCEPT ![b] = "idle"]
  /\ query' = [query EXCEPT ![b] = << >>]
  /\ predictions' = [predictions EXCEPT ![b] = << >>]
  /\ product_ids' = [product_ids EXCEPT ![b] = << >>]
  /\ tasks' = [tasks EXCEPT ![b] = << >>]
  /\ results' = [results EXCEPT ![b] = << >>]
  /\ retry_indices' = [retry_indices EXCEPT ![b] = << >>]
  /\ retry_tasks' = [retry_tasks EXCEPT ![b] = << >>]
  /\ retry_results' = [retry_results EXCEPT ![b] = << >>]
  /\ response' = [response EXCEPT ![b] = << >>]
  /\ cache0' = [cache0 EXCEPT ![b] = EmptyCache]
  /\ lookups' = [lookups EXCEPT ![b] = << >>]
  /\ calls' = [calls EXCEPT ![b] = << >>]
  /\ attempts' = [attempts EXCEPT ![b] = << >>]
  /\ accepted' = [accepted EXCEPT ![b] = {}]
  /\ writers' = [writers EXCEPT ![b] = {}]
  /\ fellback' = [fellback EXCEPT ![b] = {}]
  /\ UNCHANGED << miner_preds, aggVars >>

\* Spec follows the miner's forward calls one at a time, start to return,
\* each on the cache its predecessors left.
Next ==
  \/ \E b \in Batches, q \in Queries :
       \E fetch \in [1..Len(q) -> FetchAnswers] : Alone(b) /\ Start(b, q, fetch)
  \/ \E b \in Batches, t \in 1..MaxLen, o \in Outcomes : Settle1(b, t, o)
  \/ \E b \in Batches :
       \E refetch \in [1..Len(results[b]) -> FetchAnswers] : Wave1Done(b, refetch)
  \/ \E b \in Batches, r \in 1..MaxLen, o \in Outcomes : Settle2(b, r, o)
  \/ \E b \in Batches : Wave2Done(b)
  \/ \E b \in Batches : Return(b)

Spec == Init /\ [][Next]_vars

\* The event loop runs a suspended call again once what it awaits is ready:
\* an oracle call that can settle does settle, and a gather whose awaitables
\* have all settled hands control back to forward.
Resume(b) ==
  \/ \E t \in 1..MaxLen, o \in Outcomes : Settle1(b, t, o)
  \/ \E refetch \in [1..Len(results[b]) -> FetchAnswers] : Wave1Done(b, refetch)
  \/ \E r \in 1..MaxLen, o \in Outcomes : Settle2(b, r, o)
  \/ Wave2Done(b)

Fairness == \A b \in Batches : WF_vars(Resume(b))

SpecFair == Init /\ [][Next]_vars /\ Fairness

\* Overlapping calls: the axon serves several forward calls on one event
\* loop, each suspended at its gathers while the others run.  The calls
\* followed here ask for one product each, every lookup answers with a
\* record, and an oracle call either raises or returns an in-range breakdown.
SingleQueries == { << p >> : p \in Ids }

RecordFound == { f \in FetchAnswers : f }

OverlapOutcomes == { Raised, Schema(Uniform(7)) }

NextOverlap ==
  \/ \E b \in Batches, q \in SingleQueries :
       \E fetch \in [1..Len(q) -> RecordFound] : Start(b, q, fetch)
  \/ \E b \in Batches, t \in 1..MaxLen, o \in OverlapOutcomes : Settle1(b, t, o)
  \/ \E b \in Batches :
       \E refetch \in [1..Len(results[b]) -> RecordFound] : Wave1Done(b, refetch)
  \/ \E b \in Batches, r \in 1..MaxLen, o \in OverlapOutcomes : Settle2(b, r, o)
  \/ \E b \in Batches : Wave2Done(b)
  \/ \E b \in Batches : Return(b)

SpecOverlap == Init /\ [][NextOverlap]_vars

(***************************************************************************)
(* get_overall_score on its own: the breakdown is drawn at the start, and  *)
(* one step calls the function.                                            *)
(***************************************************************************)
\* criteria a ScoreBreakdown may carry in the model
Criteria == (MinCriterion - Excess)..(MaxCriterion + Excess)

\* breakdowns with the fields from..to at v and every other field at u
TwoValued(u, v, from, to) ==
  [f \in Fields |->
     IF \E k \in from..to : FieldNames[k] = f THEN v ELSE u]

AggInputs ==
  { TwoValued(u, v, from, to) :
      u \in Criteria, v \in Criteria,
      from \in 1..Len(FieldNames), to \in 0..Len(FieldNames) }

InitAgg ==
  /\ InitForward
  /\ aggPc = "called"
  /\ aggIn \in AggInputs
  /\ aggOut = None

Aggregate ==
  /\ aggPc = "called"
  /\ aggOut' = get_overall_score(Schema(aggIn))
  /\ aggPc' = "returned"
  /\ UNCHANGED << aggIn, fwdVars >>

NextAgg == Aggregate

SpecAgg == InitAgg /\ [][NextAgg]_vars

(***************************************************************************)
(* Properties                                                              *)
(***************************************************************************)
Done(b) == pc[b] = "done"

Slots(b) == 1..Len(query[b])

\* the position was a cache hit / a cache miss when the call partitioned its query
WasHit(b, i) == ~IsNone(cache0[b][query[b][i]])
WasMiss(b, i) == IsNone(cache0[b][query[b][i]])

\* an oracle call that raised, or whose aggregated score is absent or outside 0..100
Failed(o) ==
  LET s == get_overall_score(o)
  IN o.kind = "raise" \/ IsNone(s) \/ Val(s) < 0 \/ Val(s) > 100 * 100

\* the last product lookup made for the position answered absent
LookupAbsent(b, i) ==
  lookups[b][i] # << >> /\ ~lookups[b][i][Len(lookups[b][i])]

\* C1: a returned response has exactly as many slots as the query has ids,
\* whatever mixture of hits, misses, not-found ids, duplicates and oracle
\* failures the call met.
C1_ResponseLength ==
  \A b \in Batches : Done(b) => Len(response[b]) = Len(query[b])

\* a call that met a not-found id and an id that ended on the fallback
C1_Witness ==
  \E b \in Batches :
    /\ Done(b) /\ Len(query[b]) = 2
    /\ lookups[b][1] = << FALSE >>
    /\ 2 \in fellback[b]
    /\ Len(response[b]) = 2

\* C2: every numeric slot i of a returned response is the cache value read
\* for query[i] at partition time, a score aggregated from an oracle result
\* produced for position i, or the fallback given to position i.
C2_Aligned ==
  \A b \in Batches : Done(b) =>
    \A i \in Slots(b) :
      ~IsNone(response[b][i]) =>
        \/ WasHit(b, i) /\ response[b][i] = cache0[b][query[b][i]]
        \/ WasMiss(b, i) /\ \E k \in 1..Len(attempts[b][i]) :
             /\ ~Failed(attempts[b][i][k])
             /\ response[b][i] = get_overall_score(attempts[b][i][k])
        \/ WasMiss(b, i) /\ i \in fellback[b] /\ response[b][i] = Some(FallbackScore)

\* a not-found id in slot 1, so that the only task (index 1) belongs to slot 2,
\* and slot 2 holds the score of that task's second oracle answer
C2_Witness ==
  \E b \in Batches :
    /\ Done(b) /\ Len(query[b]) = 2
    /\ lookups[b][1] = << FALSE >> /\ IsNone(response[b][1])
    /\ Len(attempts[b][2]) = 2
    /\ Failed(attempts[b][2][1]) /\ ~Failed(attempts[b][2][2])
    /\ response[b][2] = get_overall_score(attempts[b][2][2])

\* C3: every cache miss whose product lookup returned a record at partition
\* time ends the call with a numeric score in its slot.
C3_NeverNull ==
  \A b \in Batches : Done(b) =>
    \A i \in Slots(b) :
      (WasMiss(b, i) /\ lookups[b][i][1]) => ~IsNone(response[b][i])

\* C4: an item whose product lookup answers absent ends with an absent slot,
\* its handling writes nothing to the cache, and when no other slot of the
\* call found the same id the cache entry of the id is as the call found it.
C4_NotFoundAbsent ==
  \A b \in Batches : Done(b) =>
    \A i \in Slots(b) :
      LookupAbsent(b, i) =>
        /\ IsNone(response[b][i])
        /\ i \notin writers[b]
        /\ (\A j \in Slots(b) : query[b][j] = query[b][i] => LookupAbsent(b, j))
             => miner_preds[query[b][i]] = cache0[b][query[b][i]]

\* a returned call with an id not found at partition time, cache untouched
C4_Witness ==
  \E b \in Batches :
    /\ Done(b) /\ Len(query[b]) = 2
    /\ lookups[b][1] = << FALSE >>
    /\ IsNone(response[b][1])
    /\ query[b][2] # query[b][1] /\ 2 \in writers[b]
    /\ IsNone(miner_preds[query[b][1]])

\* C5: when a call starts while id X is cached with score S, every slot of
\* the call holding X carries S, and the call makes no product lookup and no
\* oracle call for X.
C5_CachedIdempotent ==
  \A b \in Batches : pc[b] # "idle" =>
    \A i \in Slots(b) :
      WasHit(b, i) =>
        /\ predictions[b][i] = cache0[b][query[b][i]]
        /\ Done(b) => response[b][i] = cache0[b][query[b][i]]
        /\ lookups[b][i] = << >>
        /\ calls[b][i] = 0
        /\ \A t \in 1..Len(tasks[b]) : tasks[b][t].product_id # query[b][i]
        /\ \A r \in 1..Len(retry_tasks[b]) : retry_tasks[b][r].product_id # query[b][i]

\* a returned call that asked for a cached id, beside an uncached one that
\* went to the oracle
C5_Witness ==
  \E b \in Batches :
    /\ Done(b) /\ Len(query[b]) = 2
    /\ WasHit(b, 1) /\ response[b][1] = cache0[b][query[b][1]]
    /\ WasMiss(b, 2) /\ calls[b][2] >= 1

\* C6: the oracle is invoked at most twice per item of a call, once in each
\* wave, and the fallback is given only after the second call failed or
\* produced an invalid score.
C6_RetryBound ==
  \A b \in Batches : pc[b] # "idle" =>
    \A i \in Slots(b) :
      /\ calls[b][i] <= 2
      /\ Cardinality({ t \in 1..Len(tasks[b]) : tasks[b][t].pos = i }) <= 1
      /\ Cardinality({ r \in 1..Len(retry_tasks[b]) : retry_tasks[b][r].pos = i }) <= 1
      /\ Len(attempts[b][i]) <= calls[b][i]
      /\ i \in fellback[b] =>
           /\ Len(attempts[b][i]) = 2
           /\ Failed(attempts[b][i][1])
           /\ Failed(attempts[b][i][2])

\* an item on the fallback after two oracle calls
C6_Witness ==
  \E b \in Batches, i \in 1..MaxLen :
    /\ Done(b) /\ i \in Slots(b)
    /\ i \in fellback[b] /\ calls[b][i] = 2
    /\ response[b][i] = Some(FallbackScore)

\* C7: when both oracle calls of an item fail, its slot is 50.0 and the
\* cache maps its product id to 50.0 when the call returns.
C7_FallbackCached ==
  \A b \in Batches : Done(b) =>
    \A i \in Slots(b) :
      (Len(attempts[b][i]) = 2 /\ Failed(attempts[b][i][1]) /\ Failed(attempts[b][i][2]))
        => /\ response[b][i] = Some(FallbackScore)
           /\ miner_preds[query[b][i]] = Some(FallbackScore)

\* C8: no two oracle calls for the same product id are in flight together in
\* one call.
C8_OneTaskPerId ==
  \A b \in Batches :
    /\ pc[b] = "wave1" =>
         \A t, u \in 1..Len(tasks[b]) :
           (t # u /\ results[b][t] = Pending /\ results[b][u] = Pending)
             => tasks[b][t].product_id # tasks[b][u].product_id
    /\ pc[b] = "wave2" =>
         \A t, u \in 1..Len(retry_tasks[b]) :
           (t # u /\ retry_results[b][t] = Pending /\ retry_results[b][u] = Pending)
             => retry_tasks[b][t].product_id # retry_tasks[b][u].product_id

\* C9: a breakdown with a criterion outside [0,10] is never taken as a
\* successful result.
C9_OutOfRangeRejected ==
  \A b \in Batches :
    \A r \in accepted[b] : InPromptRange(r.breakdown)

\* C10: for a breakdown with all criteria in [0,10], get_overall_score
\* returns a number in [0,100], and the weighted sum is in [0,100] already
\* before it is clamped.
C10_AggregateInRange ==
  (aggPc = "returned" /\ InPromptRange(aggIn)) =>
    /\ ~IsNone(aggOut)
    /\ 0 <= Val(aggOut) /\ Val(aggOut) <= 100 * 100
    /\ 0 <= WeightedSum(aggIn) /\ WeightedSum(aggIn) <= 100 * 1000

\* every criterion at 10: 98.00
C10_Witness ==
  /\ aggPc = "returned"
  /\ aggIn = Uniform(MaxCriterion)
  /\ aggOut = Some(9800)

(***************************************************************************)
(* The reference aggregation, written from the weight table and the        *)
(* normalisation rule: thousandths, as a table over the criteria 0..10.    *)
(***************************************************************************)
\* v*1.1 for v <= 2, min(10, v*0.98) for v >= 9, v otherwise; times 100
RefNormalized == << 0, 110, 220, 300, 400, 500, 600, 700, 800, 882, 980 >>

RefTerm(bd, f, w10) == RefNormalized[bd[f] + 1] * w10

RefSum(bd) ==
    RefTerm(bd, "project", 11) + RefTerm(bd, "userbase", 9)
  + RefTerm(bd, "utility", 12) + RefTerm(bd, "security", 17)
  + RefTerm(bd, "team", 4) + RefTerm(bd, "tokenomics", 11)
  + RefTerm(bd, "marketing", 15) + RefTerm(bd, "roadmap", 10)
  + RefTerm(bd, "clarity", 4) + RefTerm(bd, "partnerships", 7)

RefClamped(bd) ==
  IF RefSum(bd) < 0 THEN 0
  ELSE IF RefSum(bd) > 100 * 1000 THEN 100 * 1000
  ELSE RefSum(bd)

\* C11: for a breakdown with all criteria in [0,10], get_overall_score
\* returns the reference aggregation (normalise, weigh, sum, clamp) rounded
\* to two decimals; all fields 5 gives 50.00, all 10 gives 98.00, all 1
\* gives 11.00.
C11_MatchesReference ==
  (aggPc = "returned" /\ InPromptRange(aggIn)) =>
    /\ ~IsNone(aggOut)
    /\ 10 * Val(aggOut) - 5 < RefClamped(aggIn)
    /\ RefClamped(aggIn) < 10 * Val(aggOut) + 5
    /\ aggIn = Uniform(5) => aggOut = Some(5000)
    /\ aggIn = Uniform(10) => aggOut = Some(9800)
    /\ aggIn = Uniform(1) => aggOut = Some(1100)

\* a breakdown mixing a boosted low criterion (2) with a moderated high one
\* (9): 0.4*8.82 + 9.6*2.2 = 24.648, returned as 24.65
C11_Witness ==
  /\ aggPc = "returned"
  /\ aggIn = WithField(Uniform(2), "team", 9)
  /\ aggOut = Some(2465)

\* C19: whatever integers the ten criteria of a ReviewScoreSchema hold,
\* get_overall_score returns a number in [0,100], so the range test forward
\* makes on it (lines 121, 155) passes.
C19_AlwaysInRange ==
  aggPc = "returned" =>
    /\ ~IsNone(aggOut)
    /\ 0 <= Val(aggOut) /\ Val(aggOut) <= 100 * 100
    /\ IsValidScore(aggOut)

\* every criterion below the range the prompt asks for: clamped to 0
C19_Witness ==
  /\ aggPc = "returned"
  /\ aggIn = Uniform(MinCriterion - Excess)
  /\ aggOut = Some(0)

\* the positions of batch b whose score is stored by the step, for product p
NewWrites(b, p) == { i \in writers'[b] \ writers[b] : query[b][i] = p }

LastOf(S) == CHOOSE i \in S : \A j \in S : j <= i

\* C12: with calls overlapping, also on the same uncached product, a cache
\* write is whole and per key: after a step that stores a score for p the
\* entry of p is exactly the score the acting call stored last, whatever
\* another call stored there before, and an entry changes only in a step
\* that stores a score for its key.
C12_LastWriterWins ==
  [][\A p \in Ids :
       /\ \A b \in Batches :
            NewWrites(b, p) # {} =>
              miner_preds'[p] = predictions'[b][LastOf(NewWrites(b, p))]
       /\ miner_preds'[p] # miner_preds[p] =>
            \E b \in Batches : NewWrites(b, p) # {}]_vars

\* two calls both missed A, both invoked the oracle, and stored different
\* scores; the entry holds the score of one of them
C12_Witness ==
  \E b, c \in Batches :
    /\ b # c /\ Done(b) /\ Done(c)
    /\ query[b] = << "A" >> /\ query[c] = << "A" >>
    /\ WasMiss(b, 1) /\ WasMiss(c, 1)
    /\ 1 \in writers[b] /\ 1 \in writers[c]
    /\ predictions[b][1] # predictions[c][1]
    /\ miner_preds["A"] = predictions[c][1]
    /\ IsNone(miner_preds["B"])

InFlight(b) == pc[b] \in {"wave1", "wave2"}

\* no oracle call of the batch, first wave or retry, is still unsettled
NoneUnsettled(b) ==
  /\ \A t \in 1..Len(results[b]) : results[b][t] # Pending
  /\ \A r \in 1..Len(retry_results[b]) : retry_results[b][r] # Pending

\* C13: a retry oracle call exists only once every first-wave call of the
\* batch has settled, and only for a position whose first attempt raised or
\* gave no valid score.
C13_WaveOrdering ==
  \A b \in Batches :
    /\ (pc[b] = "wave2" \/ retry_tasks[b] # << >>) =>
         \A t \in 1..Len(results[b]) : results[b][t] # Pending
    /\ \A r \in 1..Len(retry_tasks[b]) :
         LET first == attempts[b][retry_tasks[b][r].pos]
         IN first # << >> /\ Failed(first[1])
    /\ \A i \in 1..Len(calls[b]) :
         calls[b][i] > 1 => (attempts[b][i] # << >> /\ Failed(attempts[b][i][1]))

\* two first-wave calls, one accepted and one failed: the second wave holds
\* the failed one alone
C13_Witness ==
  \E b \in Batches :
    /\ pc[b] = "wave2"
    /\ Len(results[b]) > 1
    /\ Len(retry_tasks[b]) = 1
    /\ writers[b] # {}

\* the position has reached its final state: served from the cache, found
\* absent by its last lookup, or given a score or the fallback
Resolved(b, i) == WasHit(b, i) \/ LookupAbsent(b, i) \/ i \in writers[b]

\* C14: the response is assigned once per call, at the step that completes
\* it: nothing is visible while the call is in flight, and when it is
\* assigned it is the whole predictions list, every position is resolved
\* and no oracle call of the batch is unsettled; afterwards it is not
\* assigned again.
C14_AssignedOnceWhenComplete ==
  [][\A b \in Batches :
       /\ InFlight(b)' => response'[b] = << >>
       /\ response'[b] # response[b] =>
            \/ pc[b] # "done" /\ pc'[b] = "done"
            \/ pc[b] = "done" /\ pc'[b] = "idle"
       /\ (pc[b] # "done" /\ pc'[b] = "done") =>
            /\ response'[b] = predictions'[b]
            /\ \A i \in 1..Len(query'[b]) : Resolved(b, i)'
            /\ NoneUnsettled(b)'
       /\ pc[b] = "done" =>
            \/ pc'[b] = "done" /\ response'[b] = response[b]
            \/ pc'[b] = "idle"]_vars

\* a completed call that mixed a cache hit with an item that took the
\* fallback after two settled oracle calls
C14_Witness ==
  \E b \in Batches :
    /\ Done(b)
    /\ response[b] = predictions[b]
    /\ Len(query[b]) > 1
    /\ fellback[b] # {}
    /\ \E i \in Slots(b) : WasHit(b, i)
    /\ NoneUnsettled(b)

\* C15: when every oracle call settles and the event loop resumes what is
\* ready (SpecFair), a call in flight reaches its return with the response
\* assigned; it passes through its waves in order, wave 2 never followed by
\* another wave; and a call that has an unsettled oracle call is not done.
C15_Terminates ==
  /\ \A b \in Batches : InFlight(b) ~> Done(b)
  /\ [](\A b \in Batches : Done(b) => NoneUnsettled(b))
  /\ [][\A b \in Batches :
          /\ pc[b] = "wave1" => pc'[b] \in {"wave1", "wave2", "done"}
          /\ pc[b] = "wave2" => pc'[b] \in {"wave2", "done"}]_vars

\* a call that needed both waves for two items and has returned its response
C15_Witness ==
  \E b \in Batches :
    /\ Done(b)
    /\ Len(results[b]) > 1
    /\ Len(retry_results[b]) = Len(results[b])
    /\ Len(response[b]) = Len(query[b])

\* C16: whichever oracle calls raise, in the first wave, the second or both,
\* forward is never left by an exception: a call is idle, waiting at a gather
\* or done, and a done call whose oracle calls raised has its response set,
\* one slot per id.
C16_NoPropagation ==
  \A b \in Batches :
    /\ pc[b] \in {"idle", "wave1", "wave2", "done"}
    /\ (Done(b) /\ \E i \in Slots(b) : Raised \in { attempts[b][i][k] :
                                                     k \in 1..Len(attempts[b][i]) }) =>
         /\ response[b] = predictions[b]
         /\ Len(response[b]) = Len(query[b])

\* both attempts for an item raised and the call returned the fallback for it
C16_Witness ==
  \E b \in Batches :
    /\ Done(b)
    /\ \E i \in Slots(b) :
         /\ attempts[b][i] = << Raised, Raised >>
         /\ response[b][i] = Some(FallbackScore)

InScoreRange(x) == IsNone(x) \/ (0 <= Val(x) /\ Val(x) <= 100 * 100)

\* C17: with calls overlapping in any order, every cache entry is a score in
\* [0,100], and so is every numeric slot of a call's predictions and of its
\* response.
C17_ValuesInRange ==
  /\ \A p \in Ids : InScoreRange(miner_preds[p])
  /\ \A b \in Batches :
       /\ \A i \in 1..Len(predictions[b]) : InScoreRange(predictions[b][i])
       /\ \A i \in 1..Len(response[b]) : InScoreRange(response[b][i])

\* two overlapping calls are done, one returning the fallback it stored for
\* A, the other a score of the oracle stored for B
C17_Witness ==
  \E b, c \in Batches :
    /\ b # c /\ Done(b) /\ Done(c)
    /\ query[b] = << "A" >> /\ query[c] = << "B" >>
    /\ fellback[b] = {1} /\ response[b] = << Some(FallbackScore) >>
    /\ ~IsNone(miner_preds["B"]) /\ response[c] = << miner_preds["B"] >>
    /\ miner_preds["A"] = Some(FallbackScore)

\* C18: when a call returns with no other call in flight, every numeric
\* slot of its response equals the cache entry of the id at that position,
\* so the same query submitted again returns the same numbers.
C18_SlotsEqualCache ==
  \A b \in Batches :
    Done(b) =>
      \A i \in Slots(b) :
        ~IsNone(response[b][i]) => response[b][i] = miner_preds[query[b][i]]

====
